---- MODULE Spec2Model ----
(***************************************************************************)
(* JSON Resource Descriptor (jrd crate): the two serde-derived structs     *)
(* JsonResourceDescriptor and JsonResourceDescriptorLink, their            *)
(* Deserialize (Parse) and Serialize implementations as fixed by the       *)
(* field types and the #[serde(...)] attributes of src/src/lib.rs.         *)
(*                                                                         *)
(* A JSON text is modelled by its token structure: an object is the        *)
(* sequence of its members in textual order (so member order and repeated  *)
(* keys are visible), an array the sequence of its elements.  Whitespace   *)
(* and indentation are not modelled.                                       *)
(***************************************************************************)
EXTENDS Integers, Sequences, FiniteSets, TLC

(***************************************************************************)
(* Bounds of the explored input space.                                     *)
(***************************************************************************)
MaxLinks == 2
MaxEntries == 2

(***************************************************************************)
(* JSON text values.                                                       *)
(***************************************************************************)
JNull == [kind |-> "null"]
JNum(n) == [kind |-> "number", num |-> n]
JStr(s) == [kind |-> "string", str |-> s]
\* a JSON string whose content is an RFC 3339 date-time; t describes it
JTimeStr(t) == [kind |-> "string", rfc3339 |-> t]
JArr(items) == [kind |-> "array", items |-> items]
JObj(members) == [kind |-> "object", members |-> members]

Ok(v) == [ok |-> TRUE, val |-> v]
Err(e) == [ok |-> FALSE, err |-> e]

None == <<>>
Some(x) == <<x>>

(***************************************************************************)
(* Map = BTreeMap<String, String>: entries kept sorted by key, String's    *)
(* Ord being the lexicographic order of the UTF-8 bytes.  A map is the     *)
(* sequence of its <<key, value>> entries in iteration order.              *)
(***************************************************************************)
Bytes ==
  "B" :> <<66>> @@ "a" :> <<97>> @@ "ab" :> <<97, 98>> @@ "b" :> <<98>>
  @@ "en-us" :> <<101, 110, 45, 117, 115>>
  @@ "http://packetizer.com/ns/name" :>
       <<104, 116, 116, 112, 58, 47, 47, 112, 97, 99, 107, 101, 116, 105, 122, 101, 114, 46, 99, 111, 109, 47, 110, 115, 47, 110, 97, 109, 101>>

RECURSIVE LexLess(_, _)
LexLess(x, y) ==
  IF x = <<>> THEN y # <<>>
  ELSE IF y = <<>> THEN FALSE
  ELSE IF Head(x) = Head(y) THEN LexLess(Tail(x), Tail(y))
  ELSE Head(x) < Head(y)

StrLess(a, b) == LexLess(Bytes[a], Bytes[b])

EmptyMap == <<>>

\* an insert that keeps an existing binding
MapInsertKeepFirst(m, k, v) ==
  IF \E i \in 1..Len(m) : m[i][1] = k THEN m
  ELSE SelectSeq(m, LAMBDA e : StrLess(e[1], k)) \o << <<k, v>> >>
         \o SelectSeq(m, LAMBDA e : StrLess(k, e[1]))

\* BTreeMap::insert: the new binding replaces one with an equal key
MapInsert(m, k, v) ==
  SelectSeq(m, LAMBDA e : StrLess(e[1], k)) \o << <<k, v>> >>
    \o SelectSeq(m, LAMBDA e : StrLess(k, e[1]))

\* BTreeMap::from / collect over (key, value) pairs in the given order
RECURSIVE MapFrom(_)
MapFrom(pairs) ==
  IF pairs = <<>> THEN EmptyMap
  ELSE LET init == MapFrom(SubSeq(pairs, 1, Len(pairs) - 1))
           last == pairs[Len(pairs)]
       IN MapInsert(init, last[1], last[2])

(***************************************************************************)
(* Time = chrono::DateTime<Utc>: an instant, seconds and nanoseconds.      *)
(* An RFC 3339 text is [local, digits, offset]: the date-time fields as a  *)
(* count of seconds, the digits after the decimal point (none: <<>>) and   *)
(* the zone offset in seconds (zulu: written "Z").                         *)
(***************************************************************************)
RECURSIVE Pow10(_)
Pow10(n) == IF n = 0 THEN 1 ELSE 10 * Pow10(n - 1)

RECURSIVE DigitsValue(_)
DigitsValue(ds) ==
  IF ds = <<>> THEN 0 ELSE 10 * DigitsValue(SubSeq(ds, 1, Len(ds) - 1)) + ds[Len(ds)]

RECURSIVE ToDigits(_, _)
ToDigits(n, width) ==
  IF width = 0 THEN <<>> ELSE Append(ToDigits(n \div 10, width - 1), n % 10)

\* DateTime<FixedOffset>::from_str followed by with_timezone(&Utc)
ParseTime(t) ==
  [secs |-> t.local - t.offset,
   nanos |-> DigitsValue(t.digits) * Pow10(9 - Len(t.digits))]

\* chrono's Serialize for DateTime: RFC 3339, SecondsFormat::AutoSi, "Z"
FormatTime(i) ==
  [local |-> i.secs,
   digits |-> IF i.nanos = 0 THEN <<>>
              ELSE IF i.nanos % 1000000 = 0 THEN ToDigits(i.nanos \div 1000000, 3)
              ELSE IF i.nanos % 1000 = 0 THEN ToDigits(i.nanos \div 1000, 6)
              ELSE ToDigits(i.nanos, 9),
   offset |-> 0,
   zulu |-> TRUE]

(***************************************************************************)
(* Deserialize of the field types.                                         *)
(***************************************************************************)
DeString(j) ==
  IF j.kind = "string" /\ "str" \in DOMAIN j THEN Ok(j.str) ELSE Err("invalid type")

DeOptionString(j) ==
  IF j.kind = "null" THEN Ok(None)
  ELSE LET r == DeString(j) IN IF r.ok THEN Ok(Some(r.val)) ELSE r

DeOptionTime(j) ==
  IF j.kind = "null" THEN Ok(None)
  ELSE IF j.kind # "string" THEN Err("invalid type")
  ELSE IF "rfc3339" \in DOMAIN j THEN Ok(Some(ParseTime(j.rfc3339)))
  ELSE Err("invalid value")

RECURSIVE DeStrings(_)
DeStrings(items) ==
  IF items = <<>> THEN Ok(<<>>)
  ELSE LET r == DeString(Head(items)) IN
       IF ~r.ok THEN r
       ELSE LET rest == DeStrings(Tail(items)) IN
            IF rest.ok THEN Ok(<<r.val>> \o rest.val) ELSE rest

DeVecString(j) == IF j.kind = "array" THEN DeStrings(j.items) ELSE Err("invalid type")

RECURSIVE DeEntries(_, _)
DeEntries(members, m) ==
  IF members = <<>> THEN Ok(m)
  ELSE LET r == DeString(Head(members)[2]) IN
       IF r.ok THEN DeEntries(Tail(members), MapInsert(m, Head(members)[1], r.val))
       ELSE r

DeMap(j) == IF j.kind = "object" THEN DeEntries(j.members, EmptyMap) ELSE Err("invalid type")

(***************************************************************************)
(* JsonResourceDescriptorLink: derived Deserialize.  The visitor reads     *)
(* the members in textual order, ignores unknown names, rejects a field    *)
(* given twice, and fills the fields not seen when the object ends.        *)
(***************************************************************************)
LinkFieldOrder == <<"rel", "type", "href", "titles", "properties">>

LinkFields == {LinkFieldOrder[i] : i \in 1..Len(LinkFieldOrder)}

DeLinkField(k, j) ==
  CASE k = "rel" -> DeString(j)
    [] k = "type" -> DeOptionString(j)
    [] k = "href" -> DeOptionString(j)
    [] k = "titles" -> DeMap(j)
    [] k = "properties" -> DeMap(j)

\* every field of the link defaulted when missing
MissingLinkFieldLenient(k) ==
  CASE k = "rel" -> Ok("")
    [] k = "type" -> Ok(None)
    [] k = "href" -> Ok(None)
    [] k = "titles" -> Ok(EmptyMap)
    [] k = "properties" -> Ok(EmptyMap)

\* a field the text does not give: Option fields become None, fields
\* marked #[serde(default)] their Default, any other is an error
MissingLinkField(k) ==
  CASE k = "rel" -> Err("missing field")
    [] k = "type" -> Ok(None)
    [] k = "href" -> Ok(None)
    [] k = "titles" -> Ok(EmptyMap)
    [] k = "properties" -> Ok(EmptyMap)

FinishLink(acc) ==
  LET get(k) == IF acc[k] # <<>> THEN Ok(acc[k][1]) ELSE MissingLinkField(k) IN
  IF \E k \in LinkFields : ~get(k).ok THEN Err("missing field")
  ELSE Ok([rel |-> get("rel").val,
           link_type |-> get("type").val,
           href |-> get("href").val,
           titles |-> get("titles").val,
           properties |-> get("properties").val])

RECURSIVE VisitLink(_, _)
VisitLink(members, acc) ==
  IF members = <<>> THEN FinishLink(acc)
  ELSE LET k == Head(members)[1]
           j == Head(members)[2]
       IN IF k \notin LinkFields THEN VisitLink(Tail(members), acc)
          ELSE IF acc[k] # <<>> THEN Err("duplicate field")
          ELSE LET r == DeLinkField(k, j) IN
               IF r.ok THEN VisitLink(Tail(members), [acc EXCEPT ![k] = <<r.val>>])
               ELSE r

DeLink(j) ==
  IF j.kind = "object" THEN VisitLink(j.members, [k \in LinkFields |-> <<>>])
  ELSE Err("invalid type")

\* a sequence visitor that pushes each element to the front
RECURSIVE DeLinksReversed(_)
DeLinksReversed(items) ==
  IF items = <<>> THEN Ok(<<>>)
  ELSE LET r == DeLink(Head(items)) IN
       IF ~r.ok THEN r
       ELSE LET rest == DeLinksReversed(Tail(items)) IN
            IF rest.ok THEN Ok(rest.val \o <<r.val>>) ELSE rest

\* Vec<T>'s visitor: elements in array order, the first error ends it
RECURSIVE DeLinks(_)
DeLinks(items) ==
  IF items = <<>> THEN Ok(<<>>)
  ELSE LET r == DeLink(Head(items)) IN
       IF ~r.ok THEN r
       ELSE LET rest == DeLinks(Tail(items)) IN
            IF rest.ok THEN Ok(<<r.val>> \o rest.val) ELSE rest

DeVecLink(j) == IF j.kind = "array" THEN DeLinks(j.items) ELSE Err("invalid type")

(***************************************************************************)
(* JsonResourceDescriptor: derived Deserialize.                            *)
(***************************************************************************)
FieldOrder == <<"subject", "aliases", "properties", "expires", "links">>

Fields == {FieldOrder[i] : i \in 1..Len(FieldOrder)}

DeField(k, j) ==
  CASE k = "subject" -> DeString(j)
    [] k = "aliases" -> DeVecString(j)
    [] k = "properties" -> DeMap(j)
    [] k = "expires" -> DeOptionTime(j)
    [] k = "links" -> DeVecLink(j)

\* subject and links carry no #[serde(default)] and are not Options
MissingField(k) ==
  CASE k = "subject" -> Err("missing field")
    [] k = "aliases" -> Ok(<<>>)
    [] k = "properties" -> Ok(EmptyMap)
    [] k = "expires" -> Ok(None)
    [] k = "links" -> Err("missing field")

FinishDescriptor(acc) ==
  LET get(k) == IF acc[k] # <<>> THEN Ok(acc[k][1]) ELSE MissingField(k) IN
  IF \E k \in Fields : ~get(k).ok THEN Err("missing field")
  ELSE Ok([subject |-> get("subject").val,
           aliases |-> get("aliases").val,
           properties |-> get("properties").val,
           expires |-> get("expires").val,
           links |-> get("links").val])

RECURSIVE VisitDescriptor(_, _)
VisitDescriptor(members, acc) ==
  IF members = <<>> THEN FinishDescriptor(acc)
  ELSE LET k == Head(members)[1]
           j == Head(members)[2]
       IN IF k \notin Fields THEN VisitDescriptor(Tail(members), acc)
          ELSE IF acc[k] # <<>> THEN Err("duplicate field")
          ELSE LET r == DeField(k, j) IN
               IF r.ok THEN VisitDescriptor(Tail(members), [acc EXCEPT ![k] = <<r.val>>])
               ELSE r

\* serde_json::from_str::<JsonResourceDescriptor>
Parse(j) ==
  IF j.kind = "object" THEN VisitDescriptor(j.members, [k \in Fields |-> <<>>])
  ELSE Err("invalid type")

(***************************************************************************)
(* Derived Serialize: the fields in declaration order, each left out when  *)
(* its skip_serializing_if predicate holds.                                *)
(***************************************************************************)
SerMap(m) == JObj([i \in 1..Len(m) |-> <<m[i][1], JStr(m[i][2])>>])

SerStrings(v) == JArr([i \in 1..Len(v) |-> JStr(v[i])])

SkipLinkField(k, l) ==
  CASE k = "rel" -> FALSE
    [] k = "type" -> l.link_type = None
    [] k = "href" -> l.href = None
    [] k = "titles" -> l.titles = EmptyMap
    [] k = "properties" -> l.properties = EmptyMap

EmitLinkField(k, l) ==
  CASE k = "rel" -> JStr(l.rel)
    [] k = "type" -> IF l.link_type = None THEN JNull ELSE JStr(l.link_type[1])
    [] k = "href" -> IF l.href = None THEN JNull ELSE JStr(l.href[1])
    [] k = "titles" -> SerMap(l.titles)
    [] k = "properties" -> SerMap(l.properties)

RECURSIVE SerLinkFields(_, _)
SerLinkFields(order, l) ==
  IF order = <<>> THEN <<>>
  ELSE (IF SkipLinkField(Head(order), l) THEN <<>>
        ELSE << <<Head(order), EmitLinkField(Head(order), l)>> >>)
       \o SerLinkFields(Tail(order), l)

SerializeLink(l) == JObj(SerLinkFields(LinkFieldOrder, l))

SerLinks(v) == JArr([i \in 1..Len(v) |-> SerializeLink(v[i])])

\* no skip_serializing_if on the descriptor
SkipFieldNever(k, v) == FALSE

SkipField(k, v) ==
  CASE k = "subject" -> FALSE
    [] k = "aliases" -> v.aliases = <<>>
    [] k = "properties" -> v.properties = EmptyMap
    [] k = "expires" -> v.expires = None
    [] k = "links" -> v.links = <<>>

EmitField(k, v) ==
  CASE k = "subject" -> JStr(v.subject)
    [] k = "aliases" -> SerStrings(v.aliases)
    [] k = "properties" -> SerMap(v.properties)
    [] k = "expires" -> IF v.expires = None THEN JNull ELSE JTimeStr(FormatTime(v.expires[1]))
    [] k = "links" -> SerLinks(v.links)

RECURSIVE SerFields(_, _)
SerFields(order, v) ==
  IF order = <<>> THEN <<>>
  ELSE (IF SkipField(Head(order), v) THEN <<>>
        ELSE << <<Head(order), EmitField(Head(order), v)>> >>)
       \o SerFields(Tail(order), v)

\* the descriptor's fields written with expires first, as the doc lists them
SerializeExpiresFirst(v) ==
  JObj(SerFields(<<"expires", "subject", "aliases", "properties", "links">>, v))

\* serde_json::to_string(_pretty)
Serialize(v) == JObj(SerFields(FieldOrder, v))

(***************************************************************************)
(* Input space: JSON texts handed to Parse.  A field's text is None when   *)
(* the member is not written, Some(j) when it is written with value j.     *)
(***************************************************************************)
Reverse(s) == [i \in 1..Len(s) |-> s[Len(s) + 1 - i]]

RECURSIVE Members(_, _)
Members(order, opt) ==
  IF order = <<>> THEN <<>>
  ELSE (IF opt[Head(order)] = None THEN <<>>
        ELSE << <<Head(order), opt[Head(order)][1]>> >>)
       \o Members(Tail(order), opt)

EntryPool == {<<"b", "2">>, <<"a", "1">>, <<"a", "3">>, <<"B", "4">>}

PairSeqs == UNION {[1..n -> EntryPool] : n \in 0..MaxEntries}

MapText(p) == JObj([i \in 1..Len(p) |-> <<p[i][1], JStr(p[i][2])>>])

MapTexts ==
  {MapText(p) : p \in PairSeqs}
    \cup {JObj(<< <<"a", JNull>> >>), JObj(<< <<"b", JStr("2")>>, <<"a", JNum(1)>> >>)}

TimeTexts ==
  {[local |-> 100, digits |-> ds, offset |-> z[1], zulu |-> z[2]] :
     ds \in {<<>>, <<0>>, <<5>>, <<1, 2, 3, 0, 0, 0>>, <<0, 0, 0, 0, 0, 0, 0, 0, 1>>},
     z \in {<<0, TRUE>>, <<0, FALSE>>, <<3600, FALSE>>}}

GoodLink(rel, href) == JObj(<< <<"rel", JStr(rel)>>, <<"href", JStr(href)>> >>)

LinkPool ==
  {GoodLink("r1", "h1"), GoodLink("r1", "h2"),
   JObj(<< <<"type", JStr("text/html")>>, <<"rel", JStr("r2")>> >>),
   JObj(<< <<"href", JStr("x")>> >>),
   JObj(<< <<"rel", JNum(1)>>, <<"href", JStr("h1")>> >>)}

LinkSeqs == UNION {[1..n -> LinkPool] : n \in 0..MaxLinks}

LinkShapes ==
  [rel : {None, Some(JStr("r1")), Some(JNum(1)), Some(JNull)},
   type : {None, Some(JStr("text/html")), Some(JNull)},
   href : {None, Some(JStr("h1"))},
   titles : {None, Some(JObj(<<>>)), Some(MapText(<< <<"b", "2">>, <<"a", "1">> >>))},
   properties : {None, Some(JObj(<<>>)), Some(JNum(1))}]

LinkMapShapes ==
  [rel : {Some(JStr("r1"))}, type : {None}, href : {None},
   titles : {Some(m) : m \in MapTexts}, properties : {None}]
    \cup
  [rel : {Some(JStr("r1"))}, type : {None}, href : {None},
   titles : {None}, properties : {Some(m) : m \in MapTexts}]

SingleLinkTexts ==
  {JObj(Members(o, l)) : l \in LinkShapes \cup LinkMapShapes,
                         o \in {LinkFieldOrder, Reverse(LinkFieldOrder)}}
    \cup {JStr("r1"), JNull,
          JObj(<< <<"rel", JStr("r1")>>, <<"rel", JStr("r2")>> >>),
          JObj(<< <<"rel", JStr("r1")>>, <<"template", JStr("x")>> >>)}

ShapeDocs ==
  [subject : {None, Some(JStr("s")), Some(JNum(1))},
   aliases : {None, Some(JArr(<<>>)), Some(JArr(<<JStr("y"), JStr("x")>>))},
   properties : {None, Some(JObj(<<>>)), Some(MapText(<< <<"b", "2">>, <<"a", "1">> >>))},
   expires : {None, Some(JNull),
              Some(JTimeStr([local |-> 100, digits |-> <<>>, offset |-> 0, zulu |-> TRUE]))},
   links : {None, Some(JArr(<<>>)), Some(JArr(<<GoodLink("r1", "h1")>>))}]

MapDocs ==
  [subject : {Some(JStr("s"))}, aliases : {None},
   properties : {Some(m) : m \in MapTexts}, expires : {None},
   links : {None, Some(JArr(<<GoodLink("r1", "h1")>>))}]

TimeDocs ==
  [subject : {Some(JStr("s"))}, aliases : {None}, properties : {None},
   expires : {Some(JTimeStr(t)) : t \in TimeTexts} \cup {Some(JStr("tomorrow")), Some(JNum(1))},
   links : {None, Some(JArr(<<>>))}]

LinkDocs ==
  [subject : {None, Some(JStr("s"))}, aliases : {None}, properties : {None},
   expires : {None}, links : {Some(JArr(ls)) : ls \in LinkSeqs}]
    \cup
  [subject : {Some(JStr("s"))}, aliases : {None}, properties : {None},
   expires : {None}, links : {Some(JArr(<<l>>)) : l \in SingleLinkTexts}]

\* the document of the crate's usage example
CanonicalDoc ==
  JObj(<< <<"subject", JStr("acct:paulej@packetizer.com")>>,
          <<"properties",
            JObj(<< <<"http://packetizer.com/ns/name", JStr("Paul E. Jones")>> >>)>>,
          <<"links",
            JArr(<< JObj(<< <<"rel", JStr("http://webfinger.net/rel/profile-page")>>,
                            <<"href", JStr("http://www.packetizer.com/people/paulej/")>> >>),
                    JObj(<< <<"rel", JStr("http://packetizer.com/rel/blog")>>,
                            <<"type", JStr("text/html")>>,
                            <<"href", JStr("http://www.packetizer.com/people/paulej/blog/")>>,
                            <<"titles",
                              JObj(<< <<"en-us", JStr("Paul E. Jones' Blog")>> >>)>> >>) >>)>> >>)

Texts ==
  {JObj(Members(o, d)) : d \in ShapeDocs \cup MapDocs \cup TimeDocs \cup LinkDocs,
                         o \in {FieldOrder, Reverse(FieldOrder)}}
    \cup {CanonicalDoc, JObj(Reverse(CanonicalDoc.members)), JArr(<<>>), JNull,
          JObj(<< <<"subject", JStr("s")>>, <<"links", JArr(<<>>)>>,
                  <<"subject", JStr("t")>> >>),
          JObj(<< <<"subject", JStr("s")>>, <<"magic", JNum(1)>>,
                  <<"links", JArr(<<>>)>> >>)}

(***************************************************************************)
(* Input space: descriptors built in memory, their maps filled from        *)
(* (key, value) pairs in any order.                                        *)
(***************************************************************************)
Instants == [secs : {100}, nanos : {0, 500000000, 123000, 1}]

Maps == {MapFrom(p) : p \in PairSeqs}

LinkValues ==
  [rel : {"r1", ""}, link_type : {None, Some("text/html")}, href : {None, Some("h1")},
   titles : {EmptyMap, MapFrom(<< <<"b", "2">>, <<"a", "1">> >>)},
   properties : {EmptyMap, MapFrom(<< <<"a", "1">> >>)}]
    \cup
  [rel : {"r1"}, link_type : {None}, href : {Some("h1"), Some("h2")},
   titles : Maps, properties : {EmptyMap}]

LinkValuePool ==
  {[rel |-> "r1", link_type |-> None, href |-> Some(h), titles |-> EmptyMap,
    properties |-> EmptyMap] : h \in {"h1", "h2"}}
    \cup {[rel |-> "r2", link_type |-> Some("text/html"), href |-> None,
           titles |-> MapFrom(<< <<"b", "2">>, <<"a", "1">> >>), properties |-> EmptyMap]}

Values ==
  [subject : {"s", ""}, aliases : {<<>>, <<"y", "x">>}, properties : Maps,
   expires : {None} \cup {Some(i) : i \in Instants},
   links : {<<>>, <<CHOOSE l \in LinkValuePool : l.rel = "r2">>}]
    \cup
  [subject : {"s"}, aliases : {<<>>}, properties : {EmptyMap}, expires : {None},
   links : UNION {[1..n -> LinkValuePool] : n \in 0..MaxLinks}
             \cup {<<l>> : l \in LinkValues}]

(***************************************************************************)
(* State: a caller either builds a descriptor or parses a text, then       *)
(* serializes the descriptor it holds and parses the text it got back.     *)
(***************************************************************************)
VARIABLES phase, text, res, val, out, back

vars == <<phase, text, res, val, out, back>>

Init ==
  /\ phase = "start"
  /\ text = None
  /\ res = None
  /\ val = None
  /\ out = None
  /\ back = None

\* a struct literal, as jrd_struct in the usage example
Construct(v) ==
  /\ phase = "start"
  /\ val' = Some(v)
  /\ phase' = "built"
  /\ UNCHANGED <<text, res, out, back>>

\* serde_json::from_str(text): a descriptor or an error, never both
ParseText(t) ==
  /\ phase = "start"
  /\ text' = Some(t)
  /\ res' = Some(Parse(t))
  /\ val' = IF Parse(t).ok THEN Some(Parse(t).val) ELSE None
  /\ phase' = IF Parse(t).ok THEN "parsed" ELSE "failed"
  /\ UNCHANGED <<out, back>>

\* serde_json::to_string_pretty(&val)
SerializeVal ==
  /\ phase \in {"built", "parsed"}
  /\ out' = Some(Serialize(val[1]))
  /\ phase' = "serialized"
  /\ UNCHANGED <<text, res, val, back>>

\* serde_json::from_str on the text just produced
ParseOut ==
  /\ phase = "serialized"
  /\ back' = Some(Parse(out[1]))
  /\ phase' = "reparsed"
  /\ UNCHANGED <<text, res, val, out>>

Next ==
  \/ \E v \in Values : Construct(v)
  \/ \E t \in Texts : ParseText(t)
  \/ SerializeVal
  \/ ParseOut

Spec == Init /\ [][Next]_vars

(***************************************************************************)
(* Vocabulary of the properties.                                           *)
(***************************************************************************)
MemberKeys(j) == [i \in 1..Len(j.members) |-> j.members[i][1]]

HasMember(j, k) == \E i \in 1..Len(j.members) : j.members[i][1] = k

Member(j, k) == j.members[CHOOSE i \in 1..Len(j.members) : j.members[i][1] = k][2]

\* the text is an object whose members, as far as they name fields, are
\* each given once with a value its field accepts
PresentMembersWellFormed(j) ==
  /\ j.kind = "object"
  /\ \A i \in 1..Len(j.members) :
       j.members[i][1] \in Fields =>
         /\ DeField(j.members[i][1], j.members[i][2]).ok
         /\ \A n \in 1..Len(j.members) : j.members[n][1] = j.members[i][1] => n = i

Parsing == phase \in {"parsed", "failed"}

NotEmptyJson(j) ==
  /\ j.kind # "null"
  /\ j.kind = "array" => j.items # <<>>
  /\ j.kind = "object" => j.members # <<>>

Pos(k, order) == CHOOSE p \in 1..Len(order) : order[p] = k

InOrder(keys, order) ==
  /\ \A i \in 1..Len(keys) : \E p \in 1..Len(order) : order[p] = keys[i]
  /\ \A i, n \in 1..Len(keys) : i < n => Pos(keys[i], order) < Pos(keys[n], order)

Ascending(keys) == \A i \in 1..(Len(keys) - 1) : StrLess(keys[i], keys[i + 1])

\* C1: a descriptor serialized and parsed again comes back, equal to itself.
RoundTrip ==
  phase = "reparsed" => back[1].ok /\ back[1].val = val[1]

\* C2: a text with a string subject parses whichever of aliases, properties,
\* expires and links it leaves out, and each one left out has its default.
DefaultFilling ==
  (/\ Parsing
   /\ PresentMembersWellFormed(text[1])
   /\ HasMember(text[1], "subject"))
  => /\ res[1].ok
     /\ ~HasMember(text[1], "aliases") => val[1].aliases = <<>>
     /\ ~HasMember(text[1], "properties") => val[1].properties = <<>>
     /\ ~HasMember(text[1], "expires") => val[1].expires = <<>>
     /\ ~HasMember(text[1], "links") => val[1].links = <<>>

\* C3: the serialized object has a member exactly for subject, rel and the
\* fields that are present or non-empty; no member is null, [] or {}.
OmittedLink(l, o) ==
  /\ HasMember(o, "rel")
  /\ HasMember(o, "type") <=> l.link_type # <<>>
  /\ HasMember(o, "href") <=> l.href # <<>>
  /\ HasMember(o, "titles") <=> l.titles # <<>>
  /\ HasMember(o, "properties") <=> l.properties # <<>>
  /\ Len(o.members) <= 5
  /\ \A i \in 1..Len(o.members) : NotEmptyJson(o.members[i][2])

Omission ==
  out # None =>
    LET v == val[1]
        o == out[1]
    IN /\ HasMember(o, "subject")
       /\ HasMember(o, "aliases") <=> v.aliases # <<>>
       /\ HasMember(o, "properties") <=> v.properties # <<>>
       /\ HasMember(o, "expires") <=> v.expires # <<>>
       /\ HasMember(o, "links") <=> v.links # <<>>
       /\ Len(o.members) <= 5
       /\ \A i \in 1..Len(o.members) : NotEmptyJson(o.members[i][2])
       /\ v.links # <<>> =>
            /\ Len(Member(o, "links").items) = Len(v.links)
            /\ \A i \in 1..Len(v.links) : OmittedLink(v.links[i], Member(o, "links").items[i])

OmissionWitness ==
  /\ phase = "serialized"
  /\ val[1].aliases = <<>> /\ val[1].properties = <<>>
  /\ val[1].expires = <<>> /\ val[1].links = <<>>
  /\ MemberKeys(out[1]) = <<"subject">>

\* C4: the members are written in the order subject, aliases, properties,
\* expires, links, and rel, type, href, titles, properties in a link,
\* whatever order the parsed text had; the usage example is reproduced.
FixedOrder ==
  out # None =>
    /\ InOrder(MemberKeys(out[1]), <<"subject", "aliases", "properties", "expires", "links">>)
    /\ HasMember(out[1], "links") =>
         \A i \in 1..Len(Member(out[1], "links").items) :
           InOrder(MemberKeys(Member(out[1], "links").items[i]),
                   <<"rel", "type", "href", "titles", "properties">>)
    /\ (text # None /\ text[1] \in {CanonicalDoc, JObj(Reverse(CanonicalDoc.members))})
         => out[1] = CanonicalDoc

FixedOrderWitness ==
  /\ phase = "serialized"
  /\ text # None
  /\ MemberKeys(text[1]) = <<"links", "expires", "properties", "aliases", "subject">>
  /\ MemberKeys(out[1]) = <<"subject", "aliases", "properties", "expires", "links">>

\* C5: a text with subject and a properties object, its entries in any
\* order, parses, and the entries are serialized in ascending key order.
KeyOrdering ==
  /\ (/\ Parsing
      /\ PresentMembersWellFormed(text[1])
      /\ HasMember(text[1], "subject")
      /\ HasMember(text[1], "properties"))
     => res[1].ok
  /\ (out # None /\ HasMember(out[1], "properties"))
     => Ascending(MemberKeys(Member(out[1], "properties")))

\* C6: a parsed links array of n >= 1 entries gives n links, the i-th the
\* parse of the i-th entry, and they are serialized in that order.
TextLinks == Member(text[1], "links").items

LinkOrder ==
  /\ (phase = "parsed" /\ HasMember(text[1], "links"))
     => /\ Len(val[1].links) = Len(TextLinks)
        /\ \A i \in 1..Len(TextLinks) : DeLink(TextLinks[i]) = Ok(val[1].links[i])
  /\ (/\ phase \in {"serialized", "reparsed"}
      /\ text # None
      /\ HasMember(text[1], "links")
      /\ TextLinks # <<>>)
     => LET outLinks == Member(out[1], "links").items IN
        /\ Len(outLinks) = Len(TextLinks)
        /\ \A i \in 1..Len(TextLinks) :
             /\ Member(outLinks[i], "rel") = Member(TextLinks[i], "rel")
             /\ (HasMember(TextLinks[i], "href") /\ Member(TextLinks[i], "href").kind = "string")
                  => (HasMember(outLinks[i], "href")
                      /\ Member(outLinks[i], "href") = Member(TextLinks[i], "href"))
  /\ (phase = "reparsed" /\ text # None /\ HasMember(text[1], "links") /\ TextLinks # <<>>)
     => back[1].ok /\ back[1].val.links = val[1].links

LinkOrderWitness ==
  /\ phase = "reparsed"
  /\ text # None
  /\ HasMember(text[1], "links")
  /\ TextLinks = <<GoodLink("r1", "h1"), GoodLink("r1", "h2")>>
  /\ Member(out[1], "links").items = <<GoodLink("r1", "h1"), GoodLink("r1", "h2")>>
  /\ back[1].ok
  /\ back[1].val.links[1].href = <<"h1">> /\ back[1].val.links[2].href = <<"h2">>

\* C7: a text with a links entry that has no rel, or a rel that is not a
\* string, fails to parse and yields no descriptor, wherever the entry is.
LacksRel(j) ==
  j.kind = "object" /\ (~HasMember(j, "rel") \/ Member(j, "rel").kind # "string")

RequiredRel ==
  (/\ text # None
   /\ text[1].kind = "object"
   /\ HasMember(text[1], "links")
   /\ Member(text[1], "links").kind = "array"
   /\ \E i \in 1..Len(TextLinks) : LacksRel(TextLinks[i]))
  => phase = "failed" /\ ~res[1].ok /\ val = None /\ out = None

RequiredRelWitness ==
  /\ phase = "failed"
  /\ text[1].kind = "object"
  /\ PresentMembersWellFormed(JObj(SelectSeq(text[1].members, LAMBDA m : m[1] # "links")))
  /\ HasMember(text[1], "subject")
  /\ HasMember(text[1], "links")
  /\ Member(text[1], "links").kind = "array"
  /\ TextLinks = <<GoodLink("r1", "h1"), JObj(<< <<"href", JStr("x")>> >>)>>

\* C8: a present expires is serialized as UTC with "Z", whole seconds only.
StrictExpires ==
  (out # None /\ val[1].expires # None)
  => /\ HasMember(out[1], "expires")
     /\ Member(out[1], "expires").kind = "string"
     /\ Member(out[1], "expires").rfc3339.zulu
     /\ Member(out[1], "expires").rfc3339.offset = 0
     /\ Member(out[1], "expires").rfc3339.digits = <<>>

\* C9: a text without subject, its other members well-formed and links
\* given, parses to a descriptor whose subject is the empty string.
AbsentSubject ==
  (/\ Parsing
   /\ PresentMembersWellFormed(text[1])
   /\ ~HasMember(text[1], "subject")
   /\ HasMember(text[1], "links"))
  => res[1].ok /\ val[1].subject = ""

\* C10: a repeated key in a titles or properties object is no error; the
\* parsed map binds each key once, to the value of its last occurrence.
RECURSIVE KeepLast(_)
KeepLast(ms) ==
  IF ms = <<>> THEN <<>>
  ELSE IF \E n \in 2..Len(ms) : ms[n][1] = Head(ms)[1] THEN KeepLast(Tail(ms))
  ELSE <<Head(ms)>> \o KeepLast(Tail(ms))

WithoutRepeats(j, mapNames) ==
  IF j.kind # "object" THEN j
  ELSE JObj([i \in 1..Len(j.members) |->
               IF j.members[i][1] \in mapNames /\ j.members[i][2].kind = "object"
               THEN <<j.members[i][1], JObj(KeepLast(j.members[i][2].members))>>
               ELSE j.members[i]])

DocWithoutRepeats(j) ==
  LET d == WithoutRepeats(j, {"properties"}) IN
  JObj([i \in 1..Len(d.members) |->
          IF d.members[i][1] = "links" /\ d.members[i][2].kind = "array"
          THEN <<"links", JArr([n \in 1..Len(d.members[i][2].items) |->
                                  WithoutRepeats(d.members[i][2].items[n],
                                                 {"titles", "properties"})])>>
          ELSE d.members[i]])

LastWins(j, m) ==
  /\ \A i \in 1..Len(j.members) :
       (\A n \in (i + 1)..Len(j.members) : j.members[n][1] # j.members[i][1])
         => \E e \in 1..Len(m) : m[e] = <<j.members[i][1], j.members[i][2].str>>
  /\ \A e \in 1..Len(m) : HasMember(j, m[e][1])

UniqueKeys(m) == \A i, n \in 1..Len(m) : m[i][1] = m[n][1] => i = n

DuplicateKeys ==
  /\ (Parsing /\ text[1].kind = "object")
     => (Parse(DocWithoutRepeats(text[1])).ok => res[1].ok)
  /\ phase = "parsed" =>
       /\ HasMember(text[1], "properties")
            => LastWins(Member(text[1], "properties"), val[1].properties)
       /\ HasMember(text[1], "links") =>
            \A i \in 1..Len(TextLinks) :
              /\ HasMember(TextLinks[i], "titles")
                   => LastWins(Member(TextLinks[i], "titles"), val[1].links[i].titles)
              /\ HasMember(TextLinks[i], "properties")
                   => LastWins(Member(TextLinks[i], "properties"), val[1].links[i].properties)
  /\ val # None =>
       /\ UniqueKeys(val[1].properties)
       /\ \A i \in 1..Len(val[1].links) :
            UniqueKeys(val[1].links[i].titles) /\ UniqueKeys(val[1].links[i].properties)

DuplicateKeysWitness ==
  /\ phase = "parsed"
  /\ HasMember(text[1], "links")
  /\ Len(TextLinks) = 1
  /\ HasMember(TextLinks[1], "titles")
  /\ Member(TextLinks[1], "titles") = JObj(<< <<"a", JStr("1")>>, <<"a", JStr("3")>> >>)
  /\ val[1].links[1].titles = << <<"a", "3">> >>
====
